---- MODULE Spec2Model ----
(***************************************************************************)
(* SchemaSweep (src/unnamed/part_000, the CLI of garethredfern/schema-sweep)*)
(* as a state machine: main() loads the config, fetches the schema, scans  *)
(* the globbed files literal by literal (pluck, parse, visit with a shared *)
(* TypeInfo) and writes the report.                                        *)
(*                                                                         *)
(* Text is a sequence of lexemes, each a string: one whitespace character, *)
(* one backtick, one punctuator, or a piece of a name.  A keyword (query,  *)
(* mutation, fragment) is always a lexeme of its own, so "myquery" is      *)
(* <<"my", "query">>; two adjacent name pieces are one GraphQL name.       *)
(* Character offsets are sums of Len over lexemes.                         *)
(***************************************************************************)
EXTENDS Integers, Sequences, FiniteSets, TLC

\* ------------------------------------------------------------------ text

Whitespace == {" ", "\n", "\t"}

\* The backtick character, written "^" here: a TLA+ string cannot hold a backtick.
Backtick == "^"

RECURSIVE CharLen(_)
\* The length in characters of a text.
CharLen(text) ==
  IF text = <<>> THEN 0 ELSE Len(Head(text)) + CharLen(Tail(text))

RECURSIVE Trim(_)
\* String.prototype.trim: leading and trailing whitespace removed.
Trim(text) ==
  IF text = <<>> THEN <<>>
  ELSE IF Head(text) \in Whitespace THEN Trim(Tail(text))
  ELSE IF text[Len(text)] \in Whitespace THEN Trim(SubSeq(text, 1, Len(text) - 1))
  ELSE text

\* String.prototype.includes(keyword + " "): the keyword followed by a space.
Includes(text, keyword) ==
  \E i \in 1..(Len(text) - 1) : text[i] = keyword /\ text[i + 1] = " "

\* The position of the first backtick of text at or after position from, 0 if none.
NextBacktick(text, from) ==
  IF \E i \in from..Len(text) : text[i] = Backtick
  THEN CHOOSE i \in from..Len(text) :
         /\ text[i] = Backtick
         /\ \A j \in from..(i - 1) : text[j] # Backtick
  ELSE 0

\* A variant of the test that knows operations only: a literal that holds nothing
\* but a fragment definition is dropped.
IsGraphqlLikeOperationsOnly(trimmed) ==
  \/ Includes(trimmed, "query")
  \/ Includes(trimmed, "mutation")

\* The test of pluckGraphqlStrings on one trimmed literal.
IsGraphqlLike(trimmed) ==
  \/ Includes(trimmed, "query")
  \/ Includes(trimmed, "mutation")
  \/ Includes(trimmed, "fragment")

RECURSIVE PluckFrom(_, _)
\* The matches of the regex (backtick, shortest run of any characters, backtick)
\* from position from on, each trimmed and filtered.
PluckFrom(code, from) ==
  LET open == NextBacktick(code, from)
      close == IF open = 0 THEN 0 ELSE NextBacktick(code, open + 1)
  IN IF open = 0 \/ close = 0 THEN <<>>
     ELSE LET content == SubSeq(code, open + 1, close - 1)
              trimmed == Trim(content)
              idx == CharLen(SubSeq(code, 1, open - 1))
          IN (IF IsGraphqlLike(trimmed)
              THEN << [source |-> trimmed, index |-> idx] >>
              ELSE <<>>) \o PluckFrom(code, close + 1)

pluckGraphqlStrings(code) == PluckFrom(code, 1)

RECURSIVE NewlinesBefore(_, _)
\* The number of "\n" among the first index characters of code.
NewlinesBefore(code, index) ==
  IF code = <<>> \/ Len(Head(code)) > index THEN 0
  ELSE (IF Head(code) = "\n" THEN 1 ELSE 0)
       + NewlinesBefore(Tail(code), index - Len(Head(code)))

\* code.slice(0, index).split("\n").length
indexToLine(code, index) == NewlinesBefore(code, index) + 1

\* ------------------------------------------------------- graphql: parse

\* The lexer skips whitespace and commas.
Ignored == Whitespace \cup {","}

Punctuators == {"{", "}", "...", "(", ")", ":", "!", "$", "@", "[", "]", "=", "|", "&"}

\* Characters no GraphQL token starts with.
Illegal == {Backtick, ";", "'", "?", "<", ">"}

IsNamePiece(lexeme) == lexeme \notin (Ignored \cup Punctuators \cup Illegal)

RECURSIVE Lex(_)
\* The tokens of a source text: names (adjacent pieces joined) and punctuators.
Lex(text) ==
  IF text = <<>> THEN <<>>
  ELSE LET h == Head(text)
           r == Lex(Tail(text))
       IN IF h \in Ignored THEN r
          ELSE IF IsNamePiece(h) /\ Len(text) > 1 /\ IsNamePiece(text[2])
               THEN << h \o Head(r) >> \o Tail(r)
               ELSE << h >> \o r

IsName(tok) == tok # "" /\ tok \notin (Punctuators \cup Illegal)

Node(kind, operation, name, typeCondition, selections) ==
  [kind |-> kind, operation |-> operation, name |-> name,
   typeCondition |-> typeCondition, selections |-> selections]

OperationKeywords == {"query", "mutation", "subscription"}

\* The token at position i, "" past the end.
At(toks, i) == IF i <= Len(toks) THEN toks[i] ELSE ""

Drop(toks, n) == SubSeq(toks, n + 1, Len(toks))

\* The parser's state: the tokens left, the nodes whose selection set is open
\* (outermost first), the definitions completed, and run, ok or error.
ParserState(toks, stack, defs, state) ==
  [toks |-> toks, stack |-> stack, defs |-> defs, state |-> state]

SyntaxError(st) == [st EXCEPT !.state = "error"]

\* A node whose selection set opens: its selections follow.
Open(st, node, consumed) ==
  [st EXCEPT !.toks = Drop(@, consumed), !.stack = Append(@, node)]

\* A selection without selection set, added to the open selection set.
AddLeaf(st, node, consumed) ==
  [st EXCEPT !.toks = Drop(@, consumed),
             !.stack[Len(st.stack)].selections = Append(@, node)]

\* "}" : the open selection set, which must not be empty, is complete.
Close(st) ==
  LET depth == Len(st.stack)
      node == st.stack[depth]
  IN IF node.selections = <<>> THEN SyntaxError(st)
     ELSE IF depth = 1
     THEN [st EXCEPT !.toks = Drop(@, 1), !.stack = <<>>, !.defs = Append(@, node)]
     ELSE [st EXCEPT !.toks = Drop(@, 1),
                     !.stack = [SubSeq(st.stack, 1, depth - 1)
                                  EXCEPT ![depth - 1].selections = Append(@, node)]]

\* Definition : OperationDefinition | FragmentDefinition, up to its "{".
\* Document : Definition+
DefinitionStep(st) ==
  LET toks == st.toks
  IN IF toks = <<>>
     THEN [st EXCEPT !.state = IF st.defs = <<>> THEN "error" ELSE "ok"]
     ELSE IF At(toks, 1) = "{"
     THEN Open(st, Node("OperationDefinition", "query", "", "", <<>>), 1)
     ELSE IF At(toks, 1) \in OperationKeywords
     THEN IF At(toks, 2) = "{"
          THEN Open(st, Node("OperationDefinition", At(toks, 1), "", "", <<>>), 2)
          ELSE IF IsName(At(toks, 2)) /\ At(toks, 3) = "{"
          THEN Open(st, Node("OperationDefinition", At(toks, 1), At(toks, 2), "", <<>>), 3)
          ELSE SyntaxError(st)
     ELSE IF /\ At(toks, 1) = "fragment"
             /\ IsName(At(toks, 2)) /\ At(toks, 2) # "on"
             /\ At(toks, 3) = "on"
             /\ IsName(At(toks, 4))
             /\ At(toks, 5) = "{"
     THEN Open(st, Node("FragmentDefinition", "", At(toks, 2), At(toks, 4), <<>>), 5)
     ELSE SyntaxError(st)

\* Selection : Field | FragmentSpread | InlineFragment, or the closing "}".
SelectionStep(st) ==
  LET toks == st.toks
      aliased == At(toks, 2) = ":"
      name == IF aliased THEN At(toks, 3) ELSE At(toks, 1)
      used == IF aliased THEN 3 ELSE 1
  IN IF toks = <<>> THEN SyntaxError(st)
     ELSE IF At(toks, 1) = "}" THEN Close(st)
     ELSE IF At(toks, 1) = "..."
     THEN IF IsName(At(toks, 2)) /\ At(toks, 2) # "on"
          THEN AddLeaf(st, Node("FragmentSpread", "", At(toks, 2), "", <<>>), 2)
          ELSE IF At(toks, 2) = "on" /\ IsName(At(toks, 3)) /\ At(toks, 4) = "{"
          THEN Open(st, Node("InlineFragment", "", "", At(toks, 3), <<>>), 4)
          ELSE IF At(toks, 2) = "{"
          THEN Open(st, Node("InlineFragment", "", "", "", <<>>), 2)
          ELSE SyntaxError(st)
     ELSE IF IsName(At(toks, 1)) /\ IsName(name)
     THEN IF At(toks, used + 1) = "{"
          THEN Open(st, Node("Field", "", name, "", <<>>), used + 1)
          ELSE AddLeaf(st, Node("Field", "", name, "", <<>>), used)
     ELSE SyntaxError(st)

RECURSIVE ParseLoop(_)
ParseLoop(st) ==
  IF st.state # "run" THEN st
  ELSE ParseLoop(IF st.stack = <<>> THEN DefinitionStep(st) ELSE SelectionStep(st))

\* graphql's parse(source) for documents of operations and fragments without
\* arguments, variables and directives: ok is FALSE where parse throws a
\* GraphQLError, val holds the definitions of the document.
parse(source) ==
  LET end == ParseLoop(ParserState(Lex(source), <<>>, <<>>, "run"))
  IN [ok |-> end.state = "ok", val |-> end.defs]

\* ---------------------------------------------------- graphql: visit

Event(ph, kind, name, within) == [ph |-> ph, kind |-> kind, name |-> name, within |-> within]

RECURSIVE NodeEvents(_, _), SelectionEvents(_, _)

\* visit(): the enter and leave calls of one node and its subtree, depth first, kept
\* to the node kinds TypeInfo or the visitor act on.  within is the kind of the node
\* whose selection set holds the node ("" for a definition).
NodeEvents(node, within) ==
  LET name == CASE node.kind = "OperationDefinition" -> node.operation
                [] node.kind = "Field" -> node.name
                [] OTHER -> node.typeCondition
      body == IF node.selections = <<>> THEN <<>>
              ELSE << Event("enter", "SelectionSet", "", within) >>
                   \o SelectionEvents(node.selections, node.kind)
                   \o << Event("leave", "SelectionSet", "", within) >>
  IN IF node.kind = "FragmentSpread" THEN <<>>
     ELSE << Event("enter", node.kind, name, within) >> \o body
          \o << Event("leave", node.kind, name, within) >>

SelectionEvents(nodes, within) ==
  IF nodes = <<>> THEN <<>>
  ELSE NodeEvents(Head(nodes), within) \o SelectionEvents(Tail(nodes), within)

\* The events of a whole document.
Events(definitions) == SelectionEvents(definitions, "")

\* --------------------------------------------------- graphql: schema

\* A type reference is its wrappers followed by the name of the named type;
\* <<>> stands for undefined.
Named(name) == << name >>

NonNull(type) == << "NON_NULL" >> \o type

ListOf(type) == << "LIST" >> \o type

\* getNamedType: the type under the list and non-null wrappers ("" for undefined).
getNamedType(type) == IF type = <<>> THEN "" ELSE type[Len(type)]

FieldDef(name, type) == [name |-> name, type |-> type]

NoFieldDef == FieldDef("", <<>>)

TypeDef(kind, fields) == [kind |-> kind, fields |-> fields]

\* The types every schema built by buildClientSchema holds.
BuiltinTypes ==
  "String" :> TypeDef("SCALAR", <<>>)
  @@ "ID" :> TypeDef("SCALAR", <<>>)
  @@ "__Schema" :> TypeDef("OBJECT", << FieldDef("types", NonNull(ListOf(NonNull(Named("__Type"))))),
                                        FieldDef("queryType", NonNull(Named("__Type"))) >>)
  @@ "__Type" :> TypeDef("OBJECT", << FieldDef("name", Named("String")),
                                      FieldDef("kind", NonNull(Named("__TypeKind"))) >>)
  @@ "__TypeKind" :> TypeDef("ENUM", <<>>)

\* type Query { user: User }  type User { id: ID  email: String }
SchemaA ==
  [queryType |-> "Query", mutationType |-> "", subscriptionType |-> "",
   types |->
     "Query" :> TypeDef("OBJECT", << FieldDef("user", Named("User")) >>)
     @@ "User" :> TypeDef("OBJECT", << FieldDef("id", Named("ID")),
                                       FieldDef("email", Named("String")) >>)
     @@ BuiltinTypes]

\* type Query { user: User!  node: Node  search: [SearchResult!]!  car: Car }
\* type Mutation { updateUser: User }
\* interface Node { id: ID! }
\* type User implements Node { id: ID!  name: String  email: String }
\* type Car implements Node { id: ID!  constructor: String }
\* union SearchResult = User | Car
\* input UserInput { name: String }
SchemaB ==
  [queryType |-> "Query", mutationType |-> "Mutation", subscriptionType |-> "",
   types |->
     "Query" :> TypeDef("OBJECT", << FieldDef("user", NonNull(Named("User"))),
                                     FieldDef("node", Named("Node")),
                                     FieldDef("search", NonNull(ListOf(NonNull(Named("SearchResult"))))),
                                     FieldDef("car", Named("Car")) >>)
     @@ "Mutation" :> TypeDef("OBJECT", << FieldDef("updateUser", Named("User")) >>)
     @@ "Node" :> TypeDef("INTERFACE", << FieldDef("id", NonNull(Named("ID"))) >>)
     @@ "User" :> TypeDef("OBJECT", << FieldDef("id", NonNull(Named("ID"))),
                                       FieldDef("name", Named("String")),
                                       FieldDef("email", Named("String")) >>)
     @@ "Car" :> TypeDef("OBJECT", << FieldDef("id", NonNull(Named("ID"))),
                                      FieldDef("constructor", Named("String")) >>)
     @@ "SearchResult" :> TypeDef("UNION", <<>>)
     @@ "UserInput" :> TypeDef("INPUT_OBJECT", << FieldDef("name", Named("String")) >>)
     @@ BuiltinTypes]

\* The schema before fetchSchema returns.
NoSchema ==
  [queryType |-> "", mutationType |-> "", subscriptionType |-> "", types |-> BuiltinTypes]

KindOf(sch, name) ==
  IF name \in DOMAIN sch.types THEN sch.types[name].kind ELSE ""

isObjectType(sch, name) == KindOf(sch, name) = "OBJECT"

isCompositeType(sch, name) == KindOf(sch, name) \in {"OBJECT", "INTERFACE", "UNION"}

isOutputType(sch, type) ==
  KindOf(sch, getNamedType(type)) \in {"SCALAR", "OBJECT", "INTERFACE", "UNION", "ENUM"}

\* schema.getRootType(operation): the name of the root type, "" when the schema has none.
getRootType(sch, operation) ==
  CASE operation = "query" -> sch.queryType
    [] operation = "mutation" -> sch.mutationType
    [] OTHER -> sch.subscriptionType

\* typeFromAST for a NamedType node: schema.getType(name).
typeFromAST(sch, name) == IF name \in DOMAIN sch.types THEN Named(name) ELSE <<>>

\* type.getFields()[name] of an object or interface type.
DeclaredField(sch, typeName, name) ==
  LET fs == sch.types[typeName].fields
  IN IF \E i \in 1..Len(fs) : fs[i].name = name
     THEN fs[CHOOSE i \in 1..Len(fs) : fs[i].name = name]
     ELSE NoFieldDef

\* TypeInfo's getFieldDef(schema, parentType, fieldNode).
getFieldDef(sch, parentName, name) ==
  IF name = "__schema" /\ sch.queryType = parentName
  THEN FieldDef("__schema", NonNull(Named("__Schema")))
  ELSE IF name = "__type" /\ sch.queryType = parentName
  THEN FieldDef("__type", Named("__Type"))
  ELSE IF name = "__typename" /\ isCompositeType(sch, parentName)
  THEN FieldDef("__typename", NonNull(Named("String")))
  ELSE IF KindOf(sch, parentName) \in {"OBJECT", "INTERFACE"}
  THEN DeclaredField(sch, parentName, name)
  ELSE NoFieldDef

\* ------------------------------------------------------ graphql: TypeInfo

Push(stack, x) == Append(stack, x)

Pop(stack) == SubSeq(stack, 1, Len(stack) - 1)

\* stack.at(-1): the top, or the given undefined value on an empty stack.
Top(stack, undefined) == IF stack = <<>> THEN undefined ELSE stack[Len(stack)]

\* A TypeInfo: its _typeStack (type references), _parentTypeStack (type names, ""
\* for undefined) and _fieldDefStack.
NewTypeInfo == [typeStack |-> <<>>, parentTypeStack |-> <<>>, fieldDefStack |-> <<>>]

getType(ti) == Top(ti.typeStack, <<>>)

getParentType(ti) == Top(ti.parentTypeStack, "")

\* TypeInfo.enter(node)
TypeInfoEnter(sch, ti, ev) ==
  CASE ev.kind = "SelectionSet" ->
         LET namedType == getNamedType(getType(ti))
         IN [ti EXCEPT !.parentTypeStack =
               Push(@, IF isCompositeType(sch, namedType) THEN namedType ELSE "")]
    [] ev.kind = "Field" ->
         LET parentType == getParentType(ti)
             fieldDef == IF parentType # "" THEN getFieldDef(sch, parentType, ev.name)
                         ELSE NoFieldDef
             fieldType == fieldDef.type
         IN [ti EXCEPT !.fieldDefStack = Push(@, fieldDef),
                       !.typeStack = Push(@, IF isOutputType(sch, fieldType)
                                             THEN fieldType ELSE <<>>)]
    [] ev.kind = "OperationDefinition" ->
         LET rootType == getRootType(sch, ev.name)
         IN [ti EXCEPT !.typeStack =
               Push(@, IF isObjectType(sch, rootType) THEN Named(rootType) ELSE <<>>)]
    [] ev.kind \in {"InlineFragment", "FragmentDefinition"} ->
         LET outputType == IF ev.name # "" THEN typeFromAST(sch, ev.name)
                           ELSE (IF getNamedType(getType(ti)) = "" THEN <<>>
                                 ELSE Named(getNamedType(getType(ti))))
         IN [ti EXCEPT !.typeStack =
               Push(@, IF isOutputType(sch, outputType) THEN outputType ELSE <<>>)]
    [] OTHER -> ti

\* TypeInfo.leave(node)
TypeInfoLeave(ti, ev) ==
  CASE ev.kind = "SelectionSet" -> [ti EXCEPT !.parentTypeStack = Pop(@)]
    [] ev.kind = "Field" ->
         [ti EXCEPT !.fieldDefStack = Pop(@), !.typeStack = Pop(@)]
    [] ev.kind \in {"OperationDefinition", "InlineFragment", "FragmentDefinition"} ->
         [ti EXCEPT !.typeStack = Pop(@)]
    [] OTHER -> ti

\* ------------------------------------------------------------ the files

\* The texts of the files of the project.  In the comments a backtick is written '.

\* user.ts:
\*   const Q = 'query { user { id } }'
UserFile ==
   << "const", " ", "Q", " ", "=", " ", "^", "query", " ", "{", " ", "user", " ", "{",
      " ", "id", " ", "}", " ", "}", "^" >>

\* fragment.ts:
\*   // fields
\*   export const F = 'fragment UserFields on User { id name }'
FragmentFile ==
   << "/", "/", " ", "fields", "\n", "export", " ", "const", " ", "F", " ", "=", " ",
      "^", "fragment", " ", "UserFields", " ", "on", " ", "User", " ", "{", " ", "id",
      " ", "name", " ", "}", "^" >>

\* broken.ts:
\*   const A = 'query { user { id }'
\*   const B = 'query { user { email } }'
BrokenFile ==
   << "const", " ", "A", " ", "=", " ", "^", "query", " ", "{", " ", "user", " ", "{",
      " ", "id", " ", "}", "^", "\n", "const", " ", "B", " ", "=", " ", "^", "query",
      " ", "{", " ", "user", " ", "{", " ", "email", " ", "}", " ", "}", "^" >>

\* node.ts:
\*
\*
\*   const N = '
\*     query { node { ... on User { name } id } user { email } }
\*   '
\*   const S = 'query { search { ... on Car { id } __typename } }'
NodeFile ==
   << "\n", "\n", "const", " ", "N", " ", "=", " ", "^", "\n", " ", " ", "query", " ",
      "{", " ", "node", " ", "{", " ", "...", " ", "on", " ", "User", " ", "{", " ",
      "name", " ", "}", " ", "id", " ", "}", " ", "user", " ", "{", " ", "email", " ",
      "}", " ", "}", "\n", "^", "\n", "const", " ", "S", " ", "=", " ", "^", "query",
      " ", "{", " ", "search", " ", "{", " ", "...", " ", "on", " ", "Car", " ", "{",
      " ", "id", " ", "}", " ", "__typename", " ", "}", " ", "}", "^" >>

\* car.ts:
\*   const C = 'query { car { constructor } }'
CarFile ==
   << "const", " ", "C", " ", "=", " ", "^", "query", " ", "{", " ", "car", " ", "{",
      " ", "constructor", " ", "}", " ", "}", "^" >>

\* inline.ts:
\*   const I = 'query { node { ... on Car { constructor } id } }'
InlineFile ==
   << "const", " ", "I", " ", "=", " ", "^", "query", " ", "{", " ", "node", " ", "{",
      " ", "...", " ", "on", " ", "Car", " ", "{", " ", "constructor", " ", "}", " ",
      "id", " ", "}", " ", "}", "^" >>

\* misc.ts:
\*   const a = 'hello' + 'query{user{id}}'
\*   const b = 'my query here'
\*   const c = 'mutation { updateUser { id id __typename } } '
MiscFile ==
   << "const", " ", "a", " ", "=", " ", "^", "hello", "^", " ", "+", " ", "^", "query",
      "{", "user", "{", "id", "}", "}", "^", "\n", "const", " ", "b", " ", "=", " ",
      "^", "my", " ", "query", " ", "here", "^", "\n", "const", " ", "c", " ", "=",
      " ", "^", "mutation", " ", "{", " ", "updateUser", " ", "{", " ", "id", " ",
      "id", " ", "__typename", " ", "}", " ", "}", " ", "^" >>

FileNames ==
  {"user.ts", "fragment.ts", "broken.ts", "node.ts", "car.ts", "inline.ts", "misc.ts"}

\* fs.promises.readFile(filePath, "utf8"): the text of the file of that name.
FileText(filePath) ==
  LET name == filePath[Len(filePath)]
  IN CASE name = "user.ts" -> UserFile
       [] name = "fragment.ts" -> FragmentFile
       [] name = "broken.ts" -> BrokenFile
       [] name = "node.ts" -> NodeFile
       [] name = "car.ts" -> CarFile
       [] name = "inline.ts" -> InlineFile
       [] OTHER -> MiscFile

\* ------------------------------------------------------------ paths

\* A path is the sequence of its segments; the paths of the model are absolute.
Cwd == << "repo" >>

\* The directories that exist before the run.
ExistingDirs == { << "repo" >>, << "repo", "app" >> }

\* The projectRoot values of schemasweep.config.ts: app, /app, /repo/app, /srv/x.
RawProjectRoots ==
  { [absolute |-> FALSE, segments |-> << "app" >>],
    [absolute |-> TRUE, segments |-> << "app" >>],
    [absolute |-> TRUE, segments |-> << "repo", "app" >>],
    [absolute |-> TRUE, segments |-> << "srv", "x" >>] }

resolveProjectRoot(configDir, projectRoot) ==
  IF projectRoot.absolute
  THEN IF projectRoot.segments \in ExistingDirs THEN projectRoot.segments
       ELSE IF Len(projectRoot.segments) = 1 THEN configDir \o projectRoot.segments
       ELSE IF (configDir \o projectRoot.segments) \in ExistingDirs
            THEN configDir \o projectRoot.segments
       ELSE projectRoot.segments
  ELSE configDir \o projectRoot.segments

Endpoint == "http://localhost:3000/graphql"

NoConfig == [projectRoot |-> <<>>, graphqlEndpoint |-> ""]

\* path.join(process.cwd(), "reports")
ReportsDir == Cwd \o << "reports" >>

\* path.join(reportsDir, "schemasweep-report.json")
OutputPath == ReportsDir \o << "schemasweep-report.json" >>

\* ------------------------------------------------------------ globby

\* The number of files globby returns is at most MaxFiles.
MaxFiles == 2

RECURSIVE FileLists(_, _)
\* The duplicate-free lists of at most n files under root.
FileLists(root, n) ==
  IF n = 0 THEN { <<>> }
  ELSE LET shorter == FileLists(root, n - 1)
       IN shorter \cup
          { Append(l, root \o << f >>) :
              l \in { x \in shorter : Len(x) = n - 1 },
              f \in FileNames }

NoDuplicates(list) == \A i, j \in 1..Len(list) : list[i] = list[j] => i = j

\* globby(globPatterns): the files found under projectRoot, none where it does not exist.
GlobResults(root) ==
  IF root \in ExistingDirs
  THEN { l \in FileLists(root, MaxFiles) : NoDuplicates(l) }
  ELSE { <<>> }

\* ------------------------------------------------------ plain objects

\* The object literal {} : no own property.
EmptyObject == <<>>

\* obj[key] = value
SetProp(obj, key, value) ==
  [k \in (DOMAIN obj) \cup {key} |-> IF k = key THEN value ELSE obj[k]]

\* The properties a plain object inherits from Object.prototype, all functions.
ObjectPrototypeKeys ==
  {"constructor", "hasOwnProperty", "isPrototypeOf", "propertyIsEnumerable",
   "toLocaleString", "toString", "valueOf"}

\* The length property of the inherited function.
FunctionLength(key) ==
  IF key \in {"constructor", "hasOwnProperty", "isPrototypeOf", "propertyIsEnumerable"}
  THEN 1 ELSE 0

\* obj[key] on a plain object of arrays: the own array, else the function inherited
\* from Object.prototype, else undefined.
GetProp(obj, key) ==
  IF key \in DOMAIN obj
  THEN [tag |-> "array", list |-> obj[key], length |-> Len(obj[key])]
  ELSE IF key \in ObjectPrototypeKeys
  THEN [tag |-> "function", list |-> <<>>, length |-> FunctionLength(key)]
  ELSE [tag |-> "undefined", list |-> <<>>, length |-> 0]

\* A variant of the Field visitor that keeps one copy of each location.
FieldVisitorDeduplicating(um, parentName, fieldName, loc) ==
  IF parentName = ""
  THEN [usageMap |-> um, pushed |-> FALSE, threw |-> FALSE]
  ELSE LET um1 == IF parentName \notin DOMAIN um
                  THEN SetProp(um, parentName, EmptyObject) ELSE um
           um2 == IF GetProp(um1[parentName], fieldName).tag = "undefined"
                  THEN SetProp(um1, parentName, SetProp(um1[parentName], fieldName, <<>>))
                  ELSE um1
           target == GetProp(um2[parentName], fieldName)
           seen == \E i \in 1..Len(target.list) : target.list[i] = loc
       IN IF target.tag = "array"
          THEN [usageMap |-> IF seen THEN um2
                             ELSE SetProp(um2, parentName,
                                          SetProp(um2[parentName], fieldName,
                                                  Append(target.list, loc))),
                pushed |-> TRUE, threw |-> FALSE]
          ELSE [usageMap |-> um2, pushed |-> FALSE, threw |-> TRUE]

\* The Field visitor of buildUsageMap on a node named fieldName, with parentName
\* the name of typeInfo.getParentType() ("" for undefined): the usage map after it,
\* whether it pushed a location, and whether it threw (push is not a function).
\* The names of the schema's types are taken not to be in ObjectPrototypeKeys, so
\* usageMap[parentName] is an own property or undefined.
FieldVisitor(um, parentName, fieldName, loc) ==
  IF parentName = ""
  THEN [usageMap |-> um, pushed |-> FALSE, threw |-> FALSE]
  ELSE LET um1 == IF parentName \notin DOMAIN um
                  THEN SetProp(um, parentName, EmptyObject) ELSE um
           um2 == IF GetProp(um1[parentName], fieldName).tag = "undefined"
                  THEN SetProp(um1, parentName, SetProp(um1[parentName], fieldName, <<>>))
                  ELSE um1
           target == GetProp(um2[parentName], fieldName)
       IN IF target.tag = "array"
          THEN [usageMap |-> SetProp(um2, parentName,
                                     SetProp(um2[parentName], fieldName,
                                             Append(target.list, loc))),
                pushed |-> TRUE, threw |-> FALSE]
          ELSE [usageMap |-> um2, pushed |-> FALSE, threw |-> TRUE]

\* ----------------------------------------------------------- the report

\* name.startsWith("__"), over the names of the model.
StartsWithUnderscores(name) ==
  name \in {"__Schema", "__Type", "__TypeKind", "__schema", "__type", "__typename"}

FieldNames(fields) == [i \in 1..Len(fields) |-> fields[i].name]

\* A variant of buildTypeFieldMap that keeps every type with fields, interfaces too.
buildTypeFieldMapWithInterfaces(sch) ==
  [name \in { n \in DOMAIN sch.types :
               ~StartsWithUnderscores(n) /\ KindOf(sch, n) \in {"OBJECT", "INTERFACE"} }
     |-> [fields |-> FieldNames(sch.types[name].fields)]]

buildTypeFieldMap(sch) ==
  [name \in { n \in DOMAIN sch.types : ~StartsWithUnderscores(n) /\ isObjectType(sch, n) }
     |-> [fields |-> FieldNames(sch.types[name].fields)]]

\* usageMap[typeName]?.[fieldName] ?? []
Locations(um, typeName, fieldName) ==
  LET found == IF typeName \in DOMAIN um THEN GetProp(um[typeName], fieldName)
               ELSE [tag |-> "undefined", list |-> <<>>, length |-> 0]
  IN IF found.tag = "undefined" THEN [tag |-> "array", list |-> <<>>, length |-> 0]
     ELSE found

\* One entry of fieldUsages as JSON.stringify writes it: a locations that is a
\* function is left out of the object (hasLocations is FALSE).
FieldUsage(um, typeName, fieldName) ==
  LET locations == Locations(um, typeName, fieldName)
  IN [used |-> locations.length > 0,
      hasLocations |-> locations.tag = "array",
      locations |-> locations.list]

\* The report object writeReport builds.
BuildReport(cfg, sch, um, now) ==
  LET typeFieldMap == buildTypeFieldMap(sch)
  IN [generatedAt |-> now,
      graphqlEndpoint |-> cfg.graphqlEndpoint,
      types |->
        [typeName \in DOMAIN typeFieldMap |->
           [fields |-> typeFieldMap[typeName].fields,
            fieldUsages |->
              [fieldName \in { typeFieldMap[typeName].fields[i] :
                                 i \in 1..Len(typeFieldMap[typeName].fields) }
                 |-> FieldUsage(um, typeName, fieldName)]]]]

\* new Date().toISOString()
Clock == {"2025-01-01T00:00:00.000Z", "2025-01-02T00:00:00.000Z"}

\* The schemas the endpoint may serve.
Schemas == {SchemaA, SchemaB}

\* ------------------------------------------------------ the state machine

VARIABLES
  pc,          \* where main() is: loadConfig, fetchSchema, glob, scan, literal, visit,
               \* report, done, exited
  exitCode,    \* the exit status of the process, -1 while it runs
  error,       \* what console.error reported before the exit ("" if nothing)
  config,      \* the value loadConfig returned
  schema,      \* the value fetchSchema returned
  files,       \* the value globby returned
  fi,          \* buildUsageMap: the position in files of the file being scanned
  code,        \* the text of that file
  snippets,    \* pluckGraphqlStrings(code)
  si,          \* the position in snippets of the literal being scanned
  ast,         \* parse(source): the definitions of the document
  events,      \* the enter and leave calls visit makes for ast
  ei,          \* the position in events of the next call
  startLine,   \* indexToLine(code, index)
  typeInfo,    \* the one TypeInfo of buildUsageMap
  usageMap,    \* type name -> field name -> locations
  warnings,    \* the file paths console.warn reported, in order
  dirs,        \* the directories the run created
  disk,        \* the files the run wrote: path -> content
  visitLog,    \* history: the (parent, field) pairs pushed for the current literal
  scanLog      \* history: the literals handled so far, in order

scanVars == << files, fi, code, snippets, si, ast, events, ei, startLine, typeInfo,
               usageMap, warnings, visitLog, scanLog >>

vars == << pc, exitCode, error, config, schema, dirs, disk, scanVars >>

Init ==
  /\ pc = "loadConfig"
  /\ exitCode = -1
  /\ error = ""
  /\ config = NoConfig
  /\ schema = NoSchema
  /\ files = <<>>
  /\ fi = 1
  /\ code = <<>>
  /\ snippets = <<>>
  /\ si = 1
  /\ ast = <<>>
  /\ events = <<>>
  /\ ei = 1
  /\ startLine = 1
  /\ typeInfo = NewTypeInfo
  /\ usageMap = EmptyObject
  /\ warnings = <<>>
  /\ dirs = {}
  /\ disk = EmptyObject
  /\ visitLog = <<>>
  /\ scanLog = <<>>

\* A variant of the rejection of main() that leaves a report without types behind.
AbortLeavingReport(err) ==
  /\ pc' = "exited"
  /\ exitCode' = 1
  /\ error' = err
  /\ disk' = SetProp(disk, OutputPath,
                     [generatedAt |-> "", graphqlEndpoint |-> "", types |-> EmptyObject])

\* A rejection of main(): main().catch logs it and calls process.exit(1).  Nothing
\* is written on the way out.
Abort(err) ==
  /\ pc' = "exited"
  /\ exitCode' = 1
  /\ error' = err
  /\ disk' = disk

\* loadConfig(), lines 52-73.
LoadConfig ==
  /\ pc = "loadConfig"
  /\ \/ \* no schemasweep.config.ts in cwd: console.error, process.exit(1)
        /\ pc' = "exited"
        /\ exitCode' = 1
        /\ error' = "Could not find schemasweep.config.ts"
        /\ UNCHANGED << config, disk >>
     \/ \* import(moduleUrl) rejects
        /\ Abort("config import failed")
        /\ UNCHANGED config
     \/ \E raw \in RawProjectRoots :
        /\ config' = [projectRoot |-> resolveProjectRoot(Cwd, raw),
                      graphqlEndpoint |-> Endpoint]
        /\ pc' = "fetchSchema"
        /\ UNCHANGED << exitCode, error, disk >>
  /\ UNCHANGED << schema, dirs, scanVars >>

\* fetchSchema(), lines 100-134.
FetchSchema ==
  /\ pc = "fetchSchema"
  /\ \/ \* !res.ok
        /\ Abort("Failed introspection")
        /\ UNCHANGED schema
     \/ \* !json.data
        /\ Abort("No data returned from introspection query")
        /\ UNCHANGED schema
     \/ \E sch \in Schemas :
        /\ schema' = sch
        /\ pc' = "glob"
        /\ UNCHANGED << exitCode, error, disk >>
  /\ UNCHANGED << config, dirs, scanVars >>

\* main(), lines 309-318: globby, then buildUsageMap starts with an empty usage map
\* and a new TypeInfo.
Glob ==
  /\ pc = "glob"
  /\ \/ \* globby rejects
        /\ Abort("globby failed")
        /\ UNCHANGED << files, fi, usageMap, typeInfo >>
     \/ \E found \in GlobResults(config.projectRoot) :
        /\ files' = found
        /\ fi' = 1
        /\ usageMap' = EmptyObject
        /\ typeInfo' = NewTypeInfo
        /\ pc' = "scan"
        /\ UNCHANGED << exitCode, error, disk >>
  /\ UNCHANGED << config, schema, dirs, code, snippets, si, ast, events, ei, startLine,
                  warnings, visitLog, scanLog >>

\* The end of one iteration of the loop over snippets: the next literal of the file,
\* or the next file.
NextLiteral ==
  IF si < Len(snippets)
  THEN /\ si' = si + 1
       /\ pc' = "literal"
       /\ fi' = fi
  ELSE /\ si' = si
       /\ pc' = "scan"
       /\ fi' = fi + 1

\* buildUsageMap, lines 194-198: one iteration of the loop over files.
ReadFile ==
  /\ pc = "scan"
  /\ fi <= Len(files)
  /\ \/ \* readFile rejects
        /\ Abort("readFile failed")
        /\ UNCHANGED << fi, code, snippets, si >>
     \/ /\ code' = FileText(files[fi])
        /\ snippets' = pluckGraphqlStrings(code')
        /\ si' = 1
        /\ IF snippets' = <<>>
           THEN fi' = fi + 1 /\ pc' = "scan"
           ELSE fi' = fi /\ pc' = "literal"
        /\ UNCHANGED << exitCode, error, disk >>
  /\ UNCHANGED << config, schema, dirs, files, ast, events, ei, startLine, typeInfo,
                  usageMap, warnings, visitLog, scanLog >>

\* buildUsageMap, line 239: the loop over files is over.
ScanDone ==
  /\ pc = "scan"
  /\ fi > Len(files)
  /\ pc' = "report"
  /\ UNCHANGED << exitCode, error, config, schema, dirs, disk, scanVars >>

LogEntry(filePath, index, parsed) ==
  [filePath |-> filePath, index |-> index, parsed |-> parsed]

\* A variant of the catch block that breaks out of the loop over snippets: the
\* literals left in the file are not scanned.
OnParseErrorBreaks ==
  /\ warnings' = Append(warnings, files[fi])
  /\ scanLog' = Append(scanLog, LogEntry(files[fi], snippets[si].index, FALSE))
  /\ si' = si
  /\ pc' = "scan"
  /\ fi' = fi + 1

\* buildUsageMap, lines 204-207: the catch block around parse: console.warn, continue.
OnParseError ==
  /\ warnings' = Append(warnings, files[fi])
  /\ scanLog' = Append(scanLog, LogEntry(files[fi], snippets[si].index, FALSE))
  /\ NextLiteral

\* buildUsageMap, lines 200-209: parse one literal; a parse error is warned about
\* and the loop continues.
ParseLiteral ==
  /\ pc = "literal"
  /\ LET snippet == snippets[si]
         doc == parse(snippet.source)
     IN IF ~doc.ok
        THEN /\ OnParseError
             /\ UNCHANGED << ast, events, ei, startLine, visitLog >>
        ELSE /\ ast' = doc.val
             /\ events' = Events(doc.val)
             /\ ei' = 1
             /\ startLine' = indexToLine(code, snippet.index)
             /\ visitLog' = <<>>
             /\ pc' = "visit"
             /\ UNCHANGED << fi, si, warnings, scanLog >>
  /\ UNCHANGED << exitCode, error, config, schema, dirs, disk, files, code, snippets,
                  typeInfo, usageMap >>

\* A variant in which visit sits inside the try block: the exception of the Field
\* visitor is warned about and the loop continues, the nodes entered so far unleft.
VisitorThrewInsideTry ==
  /\ warnings' = Append(warnings, files[fi])
  /\ NextLiteral
  /\ UNCHANGED << exitCode, error, disk, scanLog >>

\* An exception of the Field visitor: visit sits outside the try block of lines
\* 202-207, so the exception leaves visit and buildUsageMap and rejects main().
VisitorThrew ==
  /\ Abort("push is not a function")
  /\ UNCHANGED << fi, si, warnings, scanLog >>

\* visitWithTypeInfo's enter, lines 211-235: TypeInfo.enter(node), then the Field
\* visitor on a Field node.
Enter ==
  /\ pc = "visit"
  /\ ei <= Len(events)
  /\ events[ei].ph = "enter"
  /\ typeInfo' = TypeInfoEnter(schema, typeInfo, events[ei])
  /\ ei' = ei + 1
  /\ LET parentName == getParentType(typeInfo')
         r == IF events[ei].kind = "Field"
              THEN FieldVisitor(usageMap, parentName, events[ei].name,
                                [filePath |-> files[fi], line |-> startLine])
              ELSE [usageMap |-> usageMap, pushed |-> FALSE, threw |-> FALSE]
     IN /\ usageMap' = r.usageMap
        /\ visitLog' = IF r.pushed
                       THEN Append(visitLog, [parent |-> parentName,
                                              field |-> events[ei].name])
                       ELSE visitLog
        /\ IF r.threw
           THEN VisitorThrew
           ELSE UNCHANGED << pc, exitCode, error, disk, fi, si, warnings, scanLog >>
  /\ UNCHANGED << config, schema, dirs, files, code, snippets, ast, events, startLine >>

\* visitWithTypeInfo's leave: TypeInfo.leave(node); after the last one visit returns
\* and the loop over snippets continues.
Leave ==
  /\ pc = "visit"
  /\ ei <= Len(events)
  /\ events[ei].ph = "leave"
  /\ typeInfo' = TypeInfoLeave(typeInfo, events[ei])
  /\ ei' = ei + 1
  /\ IF ei = Len(events)
     THEN /\ scanLog' = Append(scanLog, LogEntry(files[fi], snippets[si].index, TRUE))
          /\ NextLiteral
     ELSE UNCHANGED << pc, fi, si, scanLog >>
  /\ UNCHANGED << exitCode, error, config, schema, dirs, disk, files, code, snippets,
                  ast, events, startLine, usageMap, warnings, visitLog >>

\* writeReport(), lines 244-294, and the end of main().
WriteReport ==
  /\ pc = "report"
  /\ \/ \* mkdir rejects
        /\ Abort("mkdir failed")
        /\ UNCHANGED dirs
     \/ \* writeFile rejects before it creates the file
        /\ dirs' = dirs \cup {ReportsDir}
        /\ Abort("writeFile failed")
     \/ \E now \in Clock :
        /\ dirs' = dirs \cup {ReportsDir}
        /\ disk' = SetProp(disk, OutputPath, BuildReport(config, schema, usageMap, now))
        /\ pc' = "done"
        /\ exitCode' = 0
        /\ UNCHANGED error
  /\ UNCHANGED << config, schema, scanVars >>

Next ==
  \/ LoadConfig
  \/ FetchSchema
  \/ Glob
  \/ ReadFile
  \/ ScanDone
  \/ ParseLiteral
  \/ Enter
  \/ Leave
  \/ WriteReport

Spec == Init /\ [][Next]_vars

\* ------------------------------------------------- what the claims speak of

\* The own list of the key (typeName, fieldName) of a usage map, empty when absent.
OwnList(um, typeName, fieldName) ==
  IF typeName \in DOMAIN um /\ fieldName \in DOMAIN um[typeName]
  THEN um[typeName][fieldName] ELSE <<>>

\* The keys of a usage map that hold a list.
KeysOf(um) == { << t, f >> : t \in DOMAIN um, f \in UNION { DOMAIN um[x] : x \in DOMAIN um } }

IntrospectionTypeNames == {"__Schema", "__Type", "__TypeKind"}

\* The object types of a schema that are not introspection types.
ObjectTypes(sch) ==
  { n \in DOMAIN sch.types : sch.types[n].kind = "OBJECT" /\ n \notin IntrospectionTypeNames }

\* The names of the fields declared on a type.
DeclaredNames(sch, typeName) ==
  { sch.types[typeName].fields[i].name : i \in 1..Len(sch.types[typeName].fields) }

ReportWritten == OutputPath \in DOMAIN disk

\* The name of a type of the schema one can select fields on, else "".
Composite(sch, name) ==
  IF name \in DOMAIN sch.types
     /\ sch.types[name].kind \in {"OBJECT", "INTERFACE", "UNION"}
  THEN name ELSE ""

\* The type in context inside the selection set of field fieldName of type parent:
\* the return type of the field under its wrappers.
ReturnType(sch, parent, fieldName) ==
  IF parent = "" THEN ""
  ELSE IF fieldName = "__schema" /\ parent = sch.queryType THEN "__Schema"
  ELSE IF fieldName = "__type" /\ parent = sch.queryType THEN "__Type"
  ELSE LET fs == sch.types[parent].fields
           hits == { i \in 1..Len(fs) : fs[i].name = fieldName }
       IN IF hits = {} THEN ""
          ELSE LET type == fs[CHOOSE i \in hits : TRUE].type
               IN Composite(sch, type[Len(type)])

\* The root operation type of an operation kind, "" when the schema has none.
RootType(sch, operation) ==
  LET root == CASE operation = "query" -> sch.queryType
                [] operation = "mutation" -> sch.mutationType
                [] OTHER -> sch.subscriptionType
  IN IF root \in DOMAIN sch.types /\ sch.types[root].kind = "OBJECT" THEN root ELSE ""

Access(parent, field, within, cond, after) ==
  [parent |-> parent, field |-> field, within |-> within, cond |-> cond, after |-> after]

RECURSIVE BindNode(_, _, _, _, _, _), BindSelections(_, _, _, _, _, _)

\* The field accesses of a node and its subtree in document order, each with the
\* schema type in context (parent, "" if none), the kind of selection set it stands
\* in (within), the type condition of that inline fragment (cond) and whether an
\* inline fragment with a type condition precedes it in its selection set (after).
BindNode(sch, node, parent, within, cond, after) ==
  LET typed == node.kind = "InlineFragment" /\ node.typeCondition # ""
      inner == CASE node.kind = "OperationDefinition" -> RootType(sch, node.operation)
                 [] node.kind = "FragmentDefinition" -> Composite(sch, node.typeCondition)
                 [] typed -> Composite(sch, node.typeCondition)
                 [] node.kind = "Field" -> ReturnType(sch, parent, node.name)
                 [] OTHER -> parent
      self == IF node.kind = "Field"
              THEN << Access(parent, node.name, within, cond, after) >> ELSE <<>>
  IN self \o BindSelections(sch, node.selections, inner,
                            IF typed THEN "TypedInlineFragment" ELSE node.kind,
                            IF typed THEN node.typeCondition ELSE "", FALSE)

BindSelections(sch, nodes, parent, within, cond, after) ==
  IF nodes = <<>> THEN <<>>
  ELSE BindNode(sch, Head(nodes), parent, within, cond, after)
       \o BindSelections(sch, Tail(nodes), parent, within, cond,
                         after \/ (Head(nodes).kind = "InlineFragment"
                                   /\ Head(nodes).typeCondition # ""))

\* The field accesses of a document.
Bind(sch, definitions) == BindSelections(sch, definitions, "", "", "", FALSE)

RECURSIVE Recordable(_)
\* The accesses that have a type in context.
Recordable(accesses) ==
  IF accesses = <<>> THEN <<>>
  ELSE (IF Head(accesses).parent # "" THEN << Head(accesses) >> ELSE <<>>)
       \o Recordable(Tail(accesses))

\* The number of Field nodes the visitor has been called on in the current literal.
FieldsVisited ==
  Cardinality({ i \in 1..(ei - 1) : events[i].ph = "enter" /\ events[i].kind = "Field" })

\* The accesses of the current literal visited so far that have a type in context.
VisitedAccesses == Recordable(SubSeq(Bind(schema, ast), 1, FieldsVisited))

Pair(access) == [parent |-> access.parent, field |-> access.field]

Pairs(accesses) == [i \in 1..Len(accesses) |-> Pair(accesses[i])]

IsPrefix(short, long) ==
  Len(short) <= Len(long) /\ \A i \in 1..Len(short) : short[i] = long[i]

\* A location of the file of that name under the project root /repo/app.
Site(name, line) == [filePath |-> << "repo", "app", name >>, line |-> line]

RECURSIVE LiteralRecords(_, _, _)
\* What the literals snips of the file at filePath are to record, in order: every
\* access with a type in context, at the line the literal starts on.
LiteralRecords(filePath, text, snips) ==
  IF snips = <<>> THEN <<>>
  ELSE LET doc == parse(Head(snips).source)
           accesses == IF doc.ok THEN Recordable(Bind(schema, doc.val)) ELSE <<>>
       IN [i \in 1..Len(accesses) |->
             [parent |-> accesses[i].parent, field |-> accesses[i].field,
              site |-> [filePath |-> filePath,
                        line |-> indexToLine(text, Head(snips).index)]]]
          \o LiteralRecords(filePath, text, Tail(snips))

RECURSIVE FileRecords(_)
FileRecords(paths) ==
  IF paths = <<>> THEN <<>>
  ELSE LiteralRecords(Head(paths), FileText(Head(paths)),
                      pluckGraphqlStrings(FileText(Head(paths))))
       \o FileRecords(Tail(paths))

\* The sites of the key (typeName, fieldName) among records, in order.
SitesOf(records, typeName, fieldName) ==
  LET Hit(r) == r.parent = typeName /\ r.field = fieldName
      hits == SelectSeq(records, Hit)
  IN [i \in 1..Len(hits) |-> hits[i].site]

RECURSIVE AllLiterals(_)
\* Every literal pluckGraphqlStrings extracts from the files, in order.
AllLiterals(paths) ==
  IF paths = <<>> THEN <<>>
  ELSE LET snips == pluckGraphqlStrings(FileText(Head(paths)))
       IN [i \in 1..Len(snips) |->
             LogEntry(Head(paths), snips[i].index, parse(snips[i].source).ok)]
          \o AllLiterals(Tail(paths))

ScanFinished == pc \in {"report", "done"}

\* ---------------------------------------------------------------- C1

\* C1: the report written by writeReport has an entry (T, F) for exactly the
\* non-introspection object types T of the schema and the fields F declared on T,
\* each once, and none for a name absent from the schema, whatever the usage map holds.
C1_ReportTotalOverSchema ==
  ReportWritten =>
    LET types == disk[OutputPath].types
    IN /\ DOMAIN types = ObjectTypes(schema)
       /\ \A t \in DOMAIN types :
            /\ DOMAIN types[t].fieldUsages = DeclaredNames(schema, t)
            /\ Len(types[t].fields) = Len(schema.types[t].fields)
            /\ \A i \in 1..Len(types[t].fields) :
                 types[t].fields[i] = schema.types[t].fields[i].name
            /\ NoDuplicates(types[t].fields)

\* A report written while the usage map holds lists for an abstract type, for an
\* undeclared field of an object type, and for __typename.
C1_Witness ==
  /\ ReportWritten
  /\ \E k \in KeysOf(usageMap) :
       k[1] \notin ObjectTypes(schema) /\ OwnList(usageMap, k[1], k[2]) # <<>>
  /\ \E k \in KeysOf(usageMap) :
       /\ k[1] \in ObjectTypes(schema)
       /\ k[2] \notin DeclaredNames(schema, k[1])
       /\ OwnList(usageMap, k[1], k[2]) # <<>>
  /\ \E k \in KeysOf(usageMap) :
       k[2] = "__typename" /\ OwnList(usageMap, k[1], k[2]) # <<>>

\* ---------------------------------------------------------------- C2

\* C2: for every entry (T, F) of the report, used is true if and only if the
\* locations list of the entry is non-empty, and that list is the list accumulated
\* for (T, F) during the scan (empty when nothing was recorded).
C2_UsedIffLocations ==
  ReportWritten =>
    LET types == disk[OutputPath].types
    IN \A t \in DOMAIN types : \A f \in DOMAIN types[t].fieldUsages :
         LET entry == types[t].fieldUsages[f]
         IN /\ entry.hasLocations
            /\ entry.used <=> (Len(entry.locations) > 0)
            /\ entry.locations = OwnList(usageMap, t, f)

\* ---------------------------------------------------------------- C3

\* C3: when parsing a literal fails (a warning is issued), the step leaves the usage
\* map and the type context as they were and the scan goes on with the next literal
\* or file without the run ending; a scan that finishes has handled every literal
\* of every file in order, with one warning per literal that does not parse.
C3_ParseFailureSkipsLiteral ==
  /\ [][warnings' # warnings =>
          /\ warnings' = Append(warnings, files[fi])
          /\ usageMap' = usageMap
          /\ typeInfo' = typeInfo
          /\ exitCode' = -1
          /\ disk' = disk
          /\ IF si < Len(snippets)
             THEN pc' = "literal" /\ si' = si + 1 /\ fi' = fi
             ELSE pc' = "scan" /\ fi' = fi + 1]_vars
  /\ [](ScanFinished =>
          /\ scanLog = AllLiterals(files)
          /\ Len(warnings) = Cardinality({ i \in 1..Len(scanLog) : ~scanLog[i].parsed })
          /\ \A k \in KeysOf(usageMap) :
               Len(OwnList(usageMap, k[1], k[2]))
                 = Len(SitesOf(FileRecords(files), k[1], k[2])))

\* The run ended well after broken.ts, whose first literal does not parse, and
\* user.ts: the second literal of broken.ts and the literal of user.ts are recorded.
C3_Witness ==
  /\ pc = "done"
  /\ files = << << "repo", "app", "broken.ts" >>, << "repo", "app", "user.ts" >> >>
  /\ warnings = << << "repo", "app", "broken.ts" >> >>
  /\ OwnList(usageMap, "User", "email") = << Site("broken.ts", 2) >>
  /\ OwnList(usageMap, "User", "id") = << Site("user.ts", 1) >>

\* ---------------------------------------------------------------- C4

C5_EveryAccessRecorded ==
  /\ visitLog = Pairs(VisitedAccesses)
  /\ (/\ pc = "done"
      /\ schema = SchemaA
      /\ files = << << "repo", "app", "user.ts" >> >>)
     => LET types == disk[OutputPath].types
        IN /\ types["Query"].fieldUsages["user"]
                = [used |-> TRUE, hasLocations |-> TRUE,
                   locations |-> << Site("user.ts", 1) >>]
           /\ types["User"].fieldUsages["id"]
                = [used |-> TRUE, hasLocations |-> TRUE,
                   locations |-> << Site("user.ts", 1) >>]
           /\ types["User"].fieldUsages["email"]
                = [used |-> FALSE, hasLocations |-> TRUE, locations |-> <<>>]

\* ---------------------------------------------------------------- C6

\* C6: a field selected inside an inline fragment with a type condition is recorded
\* against the type named in the condition, and a field that follows such a fragment
\* in the same selection set is recorded against the type in context before it.
C6_InlineFragmentBinding ==
  \A j \in 1..Len(VisitedAccesses) :
    LET a == VisitedAccesses[j]
    IN (a.within = "TypedInlineFragment" \/ a.after) =>
         /\ j <= Len(visitLog)
         /\ visitLog[j] = [parent |-> IF a.within = "TypedInlineFragment"
                                      THEN a.cond ELSE a.parent,
                           field |-> a.field]

\* ---------------------------------------------------------------- C7

\* The text between the backtick at position open and the next backtick.
LiteralAt(text, open) ==
  LET close == CHOOSE q \in (open + 1)..Len(text) :
                 text[q] = Backtick /\ \A r \in (open + 1)..(q - 1) : text[r] # Backtick
  IN SubSeq(text, open + 1, close - 1)

\* The positions of the backticks that open a literal: an even number of backticks
\* before, and one after.
Openings(text) ==
  { p \in 1..Len(text) :
      /\ text[p] = Backtick
      /\ Cardinality({ q \in 1..(p - 1) : text[q] = Backtick }) % 2 = 0
      /\ \E q \in (p + 1)..Len(text) : text[q] = Backtick }

\* A text without its leading and trailing whitespace.
Trimmed(text) ==
  LET solid == { i \in 1..Len(text) : text[i] \notin Whitespace }
  IN IF solid = {} THEN <<>>
     ELSE SubSeq(text, CHOOSE i \in solid : \A j \in solid : i <= j,
                       CHOOSE i \in solid : \A j \in solid : i >= j)

HasKeyword(text) ==
  \E keyword \in {"query", "mutation", "fragment"} :
    \E i \in 1..(Len(text) - 1) : text[i] = keyword /\ text[i + 1] = " "

\* The openings of the literals to extract.
Extracted(text) == { p \in Openings(text) : HasKeyword(Trimmed(LiteralAt(text, p))) }

\* The document of one fragment definition on User whose selections are plain fields.
FragmentOnUserOnly ==
  /\ Len(ast) = 1
  /\ ast[1].kind = "FragmentDefinition"
  /\ ast[1].typeCondition = "User"
  /\ \A i \in 1..Len(ast[1].selections) :
       ast[1].selections[i].kind = "Field" /\ ast[1].selections[i].selections = <<>>

\* C7: the literals extracted from a file are exactly the backtick-delimited
\* literals whose trimmed text contains "query ", "mutation " or "fragment ", each
\* with its trimmed text and the offset of its opening backtick; the literal of
\* fragment.ts (a fragment definition only) is extracted, and once visited each of
\* its fields is recorded against User.
C7_ExtractionByKeyword ==
  /\ Len(snippets) = Cardinality(Extracted(code))
  /\ \A p \in Extracted(code) :
       \E s \in 1..Len(snippets) :
         /\ snippets[s].index = CharLen(SubSeq(code, 1, p - 1))
         /\ snippets[s].source = Trimmed(LiteralAt(code, p))
  /\ \A s, t \in 1..Len(snippets) : s < t => snippets[s].index < snippets[t].index
  /\ code = FragmentFile => Len(snippets) = 1
  /\ (FragmentOnUserOnly /\ ei > Len(events)) =>
       visitLog = [i \in 1..Len(ast[1].selections) |->
                     [parent |-> "User", field |-> ast[1].selections[i].name]]

\* The literal of fragment.ts was extracted and visited: id and name are recorded
\* against User.
C7_Witness ==
  /\ code = FragmentFile
  /\ Len(snippets) = 1
  /\ FragmentOnUserOnly
  /\ ei > Len(events)
  /\ visitLog = << [parent |-> "User", field |-> "id"],
                   [parent |-> "User", field |-> "name"] >>

\* ---------------------------------------------------------------- C8

\* C8: after a successful run the file schemasweep-report.json exists under the
\* configured projectRoot.
C8_ReportUnderProjectRoot ==
  pc = "done" => (config.projectRoot \o << "schemasweep-report.json" >>) \in DOMAIN disk

\* ---------------------------------------------------------------- C9

\* C9: every step leaves each list of the usage map as it was or appends to it the
\* one site of the literal being visited, changes at most one list and drops no key;
\* when the scan is over the list of every key holds one site per access, in the
\* order the files and literals were processed, duplicates included.
C9_UsageMapAppendOnly ==
  /\ [][/\ DOMAIN usageMap \subseteq DOMAIN usageMap'
        /\ \A k \in KeysOf(usageMap) \cup KeysOf(usageMap') :
             \/ OwnList(usageMap', k[1], k[2]) = OwnList(usageMap, k[1], k[2])
             \/ OwnList(usageMap', k[1], k[2])
                  = Append(OwnList(usageMap, k[1], k[2]),
                           [filePath |-> files[fi], line |-> startLine])
        /\ Cardinality({ k \in KeysOf(usageMap') :
                           OwnList(usageMap', k[1], k[2]) # OwnList(usageMap, k[1], k[2]) })
             <= 1]_vars
  /\ [](ScanFinished =>
          LET records == FileRecords(files)
          IN \A k \in KeysOf(usageMap) \cup { << r.parent, r.field >> : r \in
                                               { records[i] : i \in 1..Len(records) } } :
               OwnList(usageMap, k[1], k[2]) = SitesOf(records, k[1], k[2]))

\* The run ended well with one key that holds the same site twice (id id in one
\* literal) and sites of two files in the order the files were scanned.
C9_Witness ==
  /\ pc = "done"
  /\ files = << << "repo", "app", "misc.ts" >>, << "repo", "app", "user.ts" >> >>
  /\ OwnList(usageMap, "User", "id")
       = << Site("misc.ts", 3), Site("misc.ts", 3), Site("user.ts", 1) >>

\* ---------------------------------------------------------------- C10

\* C10: between literals (and when the scan is over) the stacks of the shared
\* TypeInfo are empty, and the pairs recorded for a literal are the leading part of
\* what the schema and that literal alone determine, whatever was scanned before it.
C10_TypeContextEmptyBetweenLiterals ==
  /\ pc \in {"scan", "literal", "report", "done"} => typeInfo = NewTypeInfo
  /\ IsPrefix(visitLog, Pairs(Recordable(Bind(schema, ast))))

\* A literal has just been visited, after a literal that parsed and one that did
\* not: the stacks are empty again.
C10_Witness ==
  /\ pc \in {"scan", "literal"}
  /\ Len(scanLog) >= 3
  /\ scanLog[Len(scanLog)].parsed
  /\ \E i, j \in 1..(Len(scanLog) - 1) : scanLog[i].parsed /\ ~scanLog[j].parsed
  /\ visitLog # <<>>
  /\ typeInfo = NewTypeInfo

====
